---- MODULE Spec2Model ----
(***************************************************************************)
(* Model of the airline booking assistant (src/airline.py): the booking    *)
(* conversation engine, route lookup and booking finalization with seat    *)
(* assignment.                                                             *)
(*                                                                         *)
(* Python strings are sequences of one-character strings, so that the      *)
(* substring tests, lower(), title(), split() and int() of the source are  *)
(* computed and not assumed.  An optional value (None or a value) is a      *)
(* sequence of length at most one.                                         *)
(***************************************************************************)
EXTENDS Integers, Sequences, FiniteSets, TLC

VARIABLES current_session, bookings, booking_counter, seat_assignments,
          response, script, call, data, data_file

vars == <<current_session, bookings, booking_counter, seat_assignments,
          response, script, call, data, data_file>>

(***************************************************************************)
(* Bounds of the exploration.                                              *)
(***************************************************************************)
\* completed bookings explored in one process lifetime
MaxBookings == 2
\* the random seat draw is explored for the first MaxSeats seat codes, counted
\* row by row (1A, 1B, ..., 1F, 2A, ...)
MaxSeats == 2
\* expenses explored in the expense list of the budget tracker
MaxExpenses == 2

(***************************************************************************)
(* Optional values.                                                        *)
(***************************************************************************)
None == <<>>

Some(x) == <<x>>

(***************************************************************************)
(* Python str operations on character sequences.                           *)
(***************************************************************************)
\* the printable ASCII characters, code points 32..126 in order (code point
\* 96, the grave accent, is written by name)
Ascii ==
  <<" ","!","\"","#","$","%","&","'","(",")","*","+",",","-",".","/","0","1","2","3","4","5","6","7","8","9",":",";","<","=",">","?","@","A","B","C","D","E","F","G","H","I","J","K","L","M","N","O","P","Q","R","S","T","U","V","W","X","Y","Z","[","\\","]","^","_","grave","a","b","c","d","e","f","g","h","i","j","k","l","m","n","o","p","q","r","s","t","u","v","w","x","y","z","{","|","}","~">>

\* ord(c), tabulated
OrdTable ==
  [c \in {Ascii[i] : i \in 1..Len(Ascii)} |->
     31 + (CHOOSE i \in 1..Len(Ascii) : Ascii[i] = c)]

Ord(c) == OrdTable[c]

Chr(n) == Ascii[n - 31]

IsUpper(c) == Ord(c) >= 65 /\ Ord(c) <= 90

IsLower(c) == Ord(c) >= 97 /\ Ord(c) <= 122

IsDigit(c) == Ord(c) >= 48 /\ Ord(c) <= 57

LowerChar(c) == IF IsUpper(c) THEN Chr(Ord(c) + 32) ELSE c

UpperChar(c) == IF IsLower(c) THEN Chr(Ord(c) - 32) ELSE c

\* str.lower()
Lower(s) == [i \in 1..Len(s) |-> LowerChar(s[i])]

\* str.title(): the first cased character of every run of letters is
\* upper-cased, the other letters are lower-cased
Title(s) ==
  [i \in 1..Len(s) |->
     IF i > 1 /\ (IsUpper(s[i-1]) \/ IsLower(s[i-1]))
     THEN LowerChar(s[i]) ELSE UpperChar(s[i])]

IsSpace(c) == c = " "

\* str.strip()
RECURSIVE LStrip(_)
LStrip(s) == IF s # <<>> /\ IsSpace(Head(s)) THEN LStrip(Tail(s)) ELSE s

RECURSIVE RStrip(_)
RStrip(s) ==
  IF s # <<>> /\ IsSpace(s[Len(s)]) THEN RStrip(SubSeq(s, 1, Len(s) - 1)) ELSE s

Strip(s) == RStrip(LStrip(s))

\* sub in s
Contains(s, sub) ==
  \E i \in 1..(Len(s) - Len(sub) + 1) : SubSeq(s, i, i + Len(sub) - 1) = sub

\* s.startswith(prefix)
StartsWith(s, prefix) ==
  Len(s) >= Len(prefix) /\ SubSeq(s, 1, Len(prefix)) = prefix

\* s.split(sep) for a one-character separator: empty pieces are kept
RECURSIVE SplitOn(_, _)
SplitOn(s, sep) ==
  IF \A i \in 1..Len(s) : s[i] # sep THEN <<s>>
  ELSE LET i == CHOOSE j \in 1..Len(s) :
                  s[j] = sep /\ \A k \in 1..(j - 1) : s[k] # sep
       IN <<SubSeq(s, 1, i - 1)>> \o SplitOn(SubSeq(s, i + 1, Len(s)), sep)

\* s.split(): split on runs of whitespace, no empty pieces
Split(s) == SelectSeq(SplitOn(s, " "), LAMBDA p : p # <<>>)

\* list.index(x): the first position of x (1-based here), None when absent
IndexOf(list, x) ==
  IF \E i \in 1..Len(list) : list[i] = x
  THEN Some(CHOOSE i \in 1..Len(list) :
              list[i] = x /\ \A k \in 1..(i - 1) : list[k] # x)
  ELSE None

RECURSIVE DigitsValue(_)
DigitsValue(s) ==
  IF s = <<>> THEN 0
  ELSE 10 * DigitsValue(SubSeq(s, 1, Len(s) - 1)) + (Ord(s[Len(s)]) - 48)

\* int(s): surrounding whitespace is ignored, an optional sign is followed by
\* decimal digits; None stands for ValueError
ParseInt(s) ==
  LET t == Strip(s)
      signed == t # <<>> /\ Head(t) \in {"+", "-"}
      digits == IF signed THEN Tail(t) ELSE t
  IN IF digits # <<>> /\ \A i \in 1..Len(digits) : IsDigit(digits[i])
     THEN Some(IF signed /\ Head(t) = "-" THEN 0 - DigitsValue(digits)
               ELSE DigitsValue(digits))
     ELSE None

\* str(n) for a natural number n
RECURSIVE IntToStr(_)
IntToStr(n) ==
  IF n < 10 THEN <<Chr(48 + n)>>
  ELSE IntToStr(n \div 10) \o <<Chr(48 + (n % 10))>>

\* the order of sorted() on strings: lexicographic by code point
RECURSIVE StrLess(_, _)
StrLess(a, b) ==
  IF b = <<>> THEN FALSE
  ELSE IF a = <<>> THEN TRUE
  ELSE IF Head(a) # Head(b) THEN Ord(Head(a)) < Ord(Head(b))
  ELSE StrLess(Tail(a), Tail(b))

\* sorted(list(S)) for a set S of strings
RECURSIVE Sorted(_)
Sorted(S) ==
  IF S = {} THEN <<>>
  ELSE LET m == CHOOSE x \in S : \A y \in S \ {x} : StrLess(x, y)
       IN <<m>> \o Sorted(S \ {m})

(***************************************************************************)
(* The city names and the route catalog.                                   *)
(***************************************************************************)
NewYork == <<"N","e","w"," ","Y","o","r","k">>

LosAngeles == <<"L","o","s"," ","A","n","g","e","l","e","s">>

Miami == <<"M","i","a","m","i">>

Chicago == <<"C","h","i","c","a","g","o">>

Seattle == <<"S","e","a","t","t","l","e">>

\* self.flights_data: origin -> destination -> the offers in catalog order
flights_data ==
  NewYork :> (
     LosAngeles :> <<
         [airline |-> <<"S","k","y","W","i","n","g","s">>,
          departure |-> "08:00", price |-> 299, duration |-> "5h 30m"],
         [airline |-> <<"A","e","r","o","F","l","y">>,
          departure |-> "14:30", price |-> 329, duration |-> "5h 45m"],
         [airline |-> <<"C","l","o","u","d","J","e","t">>,
          departure |-> "19:15", price |-> 279, duration |-> "5h 20m"]>>
     @@
     Miami :> <<
         [airline |-> <<"S","u","n","A","i","r">>,
          departure |-> "06:45", price |-> 189, duration |-> "3h 15m"],
         [airline |-> <<"T","r","o","p","i","c","W","i","n","g","s">>,
          departure |-> "16:20", price |-> 209, duration |-> "3h 05m"]>>
     @@
     Chicago :> <<
         [airline |-> <<"W","i","n","d","y","C","i","t","y"," ","E","x","p","r","e","s","s">>,
          departure |-> "10:30", price |-> 159, duration |-> "2h 45m"],
         [airline |-> <<"G","r","e","a","t","L","a","k","e","s"," ","A","i","r">>,
          departure |-> "18:45", price |-> 179, duration |-> "2h 30m"]>>)
  @@
  LosAngeles :> (
     NewYork :> <<
         [airline |-> <<"E","a","s","t","C","o","a","s","t"," ","A","i","r">>,
          departure |-> "07:00", price |-> 319, duration |-> "5h 15m"],
         [airline |-> <<"T","r","a","n","s","C","o","n","t","i","n","e","n","t","a","l">>,
          departure |-> "12:45", price |-> 289, duration |-> "5h 25m"]>>
     @@
     Seattle :> <<
         [airline |-> <<"P","a","c","i","f","i","c","W","i","n","g","s">>,
          departure |-> "09:15", price |-> 149, duration |-> "2h 40m"],
         [airline |-> <<"N","o","r","t","h","W","e","s","t"," ","A","i","r">>,
          departure |-> "15:30", price |-> 169, duration |-> "2h 50m"]>>)
  @@
  Miami :> (
     NewYork :> <<
         [airline |-> <<"A","t","l","a","n","t","i","c"," ","E","x","p","r","e","s","s">>,
          departure |-> "11:20", price |-> 199, duration |-> "3h 10m"],
         [airline |-> <<"C","o","a","s","t","a","l"," ","A","i","r">>,
          departure |-> "17:40", price |-> 219, duration |-> "3h 20m"]>>)
  @@
  Chicago :> (
     NewYork :> <<
         [airline |-> <<"M","i","d","w","e","s","t"," ","E","x","p","r","e","s","s">>,
          departure |-> "08:30", price |-> 169, duration |-> "2h 35m"],
         [airline |-> <<"C","e","n","t","r","a","l"," ","A","i","r">>,
          departure |-> "14:15", price |-> 189, duration |-> "2h 40m"]>>)
  @@
  Seattle :> (
     LosAngeles :> <<
         [airline |-> <<"C","o","a","s","t"," ","t","o"," ","C","o","a","s","t">>,
          departure |-> "13:00", price |-> 159, duration |-> "2h 45m"],
         [airline |-> <<"W","e","s","t","e","r","n"," ","W","i","n","g","s">>,
          departure |-> "20:30", price |-> 139, duration |-> "2h 55m"]>>)

(***************************************************************************)
(* AirlineAIAssistant: helpers.                                            *)
(***************************************************************************)
\* the session of __init__ and of reset_session
EmptySession ==
  [source |-> None, destination |-> None, selected_flight |-> None,
   passenger_name |-> None, passenger_age |-> None, step |-> "start"]

\* a reset that goes back to the first question of the booking
reset_session_to_first_question ==
  [EmptySession EXCEPT !.step = "get_source"]

\* a reset of the step alone
reset_session_step_only == [current_session EXCEPT !.step = "start"]

\* reset_session(): the session is replaced as a whole
reset_session == EmptySession

get_available_cities_declared ==
  <<NewYork, LosAngeles, Miami, Chicago, Seattle>>

\* get_available_cities(): the origins and the destinations of the catalog,
\* sorted
get_available_cities ==
  Sorted((DOMAIN flights_data)
         \cup UNION {DOMAIN flights_data[o] : o \in DOMAIN flights_data})

\* "x in self.flights_data and y in self.flights_data[x]"
HasRoute(source, destination) ==
  /\ source \in DOMAIN flights_data
  /\ destination \in DOMAIN flights_data[source]

\* check_flight_availability with the catalog test before the same-city test
check_flight_availability_catalog_first(source, destination) ==
  IF HasRoute(source, destination)
  THEN [kind |-> "availability", source |-> source,
        destination |-> destination,
        options |-> [i \in 1..Len(flights_data[source][destination]) |->
                       [option |-> i,
                        flight |-> flights_data[source][destination][i]]]]
  ELSE IF source = destination
  THEN [kind |-> "same_city_error"]
  ELSE [kind |-> "not_found", source |-> source, destination |-> destination]

\* check_flight_availability(source, destination): the response
check_flight_availability(source, destination) ==
  IF Lower(source) = Lower(destination)
  THEN [kind |-> "same_city_error"]
  ELSE IF HasRoute(source, destination)
  THEN [kind |-> "availability", source |-> source,
        destination |-> destination,
        options |-> [i \in 1..Len(flights_data[source][destination]) |->
                       [option |-> i,
                        flight |-> flights_data[source][destination][i]]]]
  ELSE [kind |-> "not_found", source |-> source, destination |-> destination]

\* the seat letters of random.choice, in the order of the list
SeatLetters == <<"A", "B", "C", "D", "E", "F">>

\* the last row of random.randint(1, 30)
SeatRows == 30

\* f"{row}{seat_letter}"
SeatCode(row, letter) == IntToStr(row) \o <<letter>>

\* every seat code the draw can produce
AllSeats ==
  {SeatCode(row, SeatLetters[l]) : row \in 1..SeatRows, l \in 1..Len(SeatLetters)}

\* the n-th seat code, counted row by row
SeatAt(n) ==
  SeatCode(((n - 1) \div Len(SeatLetters)) + 1,
           SeatLetters[((n - 1) % Len(SeatLetters)) + 1])

\* the draws explored: the first MaxSeats codes, counted row by row
ExploredSeats ==
  {SeatAt(n) : n \in {k \in 1..(SeatRows * Len(SeatLetters)) : k <= MaxSeats}}

\* self.seat_assignments.get(flight_key, []) after the initialisation of
\* generate_seat_number
AssignedSeats(assignments, flight_key) ==
  IF flight_key \in DOMAIN assignments THEN assignments[flight_key] ELSE <<>>

\* the seats in a list
Range(list) == {list[i] : i \in 1..Len(list)}

\* generate_seat_number without the test "seat not in the list"
generate_seat_number_unchecked(assignments, flight_key) == ExploredSeats

\* generate_seat_number(flight_key): the seats the loop can return, those
\* drawn and not yet in the list of the flight key
generate_seat_number(assignments, flight_key) ==
  {seat \in ExploredSeats : seat \notin Range(AssignedSeats(assignments, flight_key))}

\* every code the draw can produce is in the list of the flight key: the test
\* "seat not in the list" fails for every draw and the "while True" loop of
\* generate_seat_number has no other exit
SeatsExhausted(assignments, flight_key) ==
  AllSeats \subseteq Range(AssignedSeats(assignments, flight_key))

AppendSeatFresh(assignments, flight_key, seat) ==
  [k \in (DOMAIN assignments) \cup {flight_key} |->
     IF k = flight_key THEN <<seat>> ELSE assignments[k]]

\* the seat table after generate_seat_number appended the seat
AppendSeat(assignments, flight_key, seat) ==
  [k \in (DOMAIN assignments) \cup {flight_key} |->
     IF k = flight_key
     THEN Append(AssignedSeats(assignments, flight_key), seat)
     ELSE assignments[k]]

\* f"{source}-{destination}-{airline}"
FlightKey(session) ==
  session.source[1] \o <<"-">> \o session.destination[1] \o <<"-">>
    \o session.selected_flight[1].airline

(***************************************************************************)
(* The inputs explored.                                                    *)
(***************************************************************************)
Book == <<"b","o","o","k">>

Atlantis == <<"A","t","l","a","n","t","i","s">>

TwoCities == <<"N","e","w"," ","Y","o","r","k"," ","o","r"," ","M","i","a","m","i">>

Help == <<"h","e","l","p">>

Report == <<"r","e","p","o","r","t">>

Reset == <<"r","e","s","e","t">>

Cancel == <<"c","a","n","c","e","l">>

StartOver == <<"s","t","a","r","t"," ","o","v","e","r">>

Hello == <<"h","e","l","l","o">>

CancelBooking == <<"c","a","n","c","e","l"," ","b","o","o","k","i","n","g">>

CheckFlights == <<"c","h","e","c","k"," ","f","l","i","g","h","t","s">>

Philip == <<"P","h","i","l","i","p">>

AnnLee == <<"A","n","n"," ","L","e","e">>

\* "check flights from <origin> to <destination>"
CheckMessage(origin, destination) ==
  <<"c","h","e","c","k"," ","f","l","i","g","h","t","s"," ","f","r","o","m"," ">> \o origin \o <<" ","t","o"," ">> \o destination

\* "Name: <name>, Age: <age>"
PassengerMessage(name, age) ==
  <<"N","a","m","e",":"," ">> \o name \o <<","," ","A","g","e",":"," ">> \o age

CityNames == {NewYork, LosAngeles, Miami, Chicago, Seattle}

\* the routes of the catalog
Routes == {r \in CityNames \X CityNames : HasRoute(r[1], r[2])}

\* the texts typed as a flight choice
ChoiceTexts == {<<"0">>, <<"1">>, <<"2">>, <<"3">>, <<"-","1">>, <<"t","w","o">>}

\* the texts typed as an age
AgeTexts == {<<"1","2","0">>, <<"1","2","1">>, <<"-","1">>, <<"o","l","d">>}

NameOnly == <<"N","a","m","e",":"," ">> \o AnnLee

AgeOnly == <<"A","g","e",":"," ","2","9">>

\* the input lines typed in any order
Messages ==
  {Book, NewYork, Miami, Seattle, Chicago, Atlantis, TwoCities,
   Help, Report, Reset, Cancel, StartOver, Hello, CancelBooking,
   CheckFlights, CheckMessage(NewYork, Miami), CheckMessage(Miami, Miami),
   NameOnly, AgeOnly}
  \cup ChoiceTexts
  \cup {PassengerMessage(AnnLee, a) : a \in AgeTexts}
  \cup {PassengerMessage(Philip, <<"1","2","0">>)}

\* the ages of the scripted bookings
ScriptAges == {0, 29, 120}

\* the scripted booking conversations: "book", origin, destination, k and the
\* passenger details, for every route, every offer of it and every age
Scripts ==
  UNION {{<<Book, r[1], r[2], IntToStr(k), PassengerMessage(AnnLee, IntToStr(a))>> :
            k \in 1..Len(flights_data[r[1]][r[2]]), a \in ScriptAges} :
         r \in Routes}

\* every input line of the exploration
\* a line that names two cities
CityPair(first, second) == first \o <<" ","o","r"," ">> \o second

\* the lines that name one city or two
CityTexts ==
  CityNames \cup {CityPair(p[1], p[2]) : p \in {q \in CityNames \X CityNames : q[1] # q[2]}}

\* the conversations that answer the two city questions: "book", then a line
\* for the origin and a line for the destination
CityScripts == {<<Book, o, d>> : o \in CityTexts, d \in CityTexts}

AllInputs ==
  Messages \cup UNION {Range(sc) : sc \in Scripts} \cup CityTexts

\* "message = message.strip().lower()"
Normalize(raw) == Lower(Strip(raw))

\* the messages process_message works on
Normalized == {Normalize(raw) : raw \in AllInputs}

(***************************************************************************)
(* process_message: the keyword lists of the dispatch, in the order of the *)
(* branches.                                                               *)
(***************************************************************************)
GreetingWords ==
  {<<"h","e","l","l","o">>,
   <<"h","i">>,
   <<"h","e","y">>,
   <<"s","t","a","r","t">>}

CheckWords ==
  {<<"c","h","e","c","k">>,
   <<"a","v","a","i","l","a","b","i","l","i","t","y">>,
   <<"f","l","i","g","h","t","s">>,
   <<"s","e","a","r","c","h">>}

BookWords ==
  {<<"b","o","o","k">>,
   <<"b","o","o","k","i","n","g">>,
   <<"r","e","s","e","r","v","e">>}

ReportWords ==
  {<<"r","e","p","o","r","t">>,
   <<"s","u","m","m","a","r","y">>}

HelpWords ==
  {<<"h","e","l","p">>,
   <<"c","o","m","m","a","n","d","s">>}

ResetWords ==
  {<<"r","e","s","e","t">>,
   <<"s","t","a","r","t"," ","o","v","e","r">>,
   <<"c","a","n","c","e","l">>}

FromWord == <<"f","r","o","m">>

ToWord == <<"t","o">>

NamePrefix == <<"n","a","m","e",":">>

AgePrefix == <<"a","g","e",":">>

\* any(word in message for word in words)
AnyWordIn(words, message) == \E word \in words : Contains(message, word)

\* f"{value}" of an optional string: None is printed as the text None
Format(opt) == IF opt = None THEN <<"N","o","n","e">> ELSE opt[1]

\* the availability-check branch: the words after "from" and after "to",
\* title-cased, are looked up; every failure falls through to the usage text
CheckBranch(message) ==
  LET parts == Split(message)
      from_idx == IndexOf(parts, FromWord)
      to_idx == IndexOf(parts, ToWord)
  IN IF /\ Contains(message, FromWord) /\ Contains(message, ToWord)
        /\ from_idx # None /\ to_idx # None
        /\ from_idx[1] < to_idx[1]
        /\ from_idx[1] + 1 <= Len(parts) /\ to_idx[1] + 1 <= Len(parts)
     THEN check_flight_availability(Title(parts[from_idx[1] + 1]),
                                    Title(parts[to_idx[1] + 1]))
     ELSE [kind |-> "check_usage"]

\* CheckBranch, tabulated over the messages explored
CheckBranchOf == [message \in Normalized |-> CheckBranch(message)]

(***************************************************************************)
(* complete_booking                                                        *)
(***************************************************************************)
\* the call of process_message is still running: nothing was returned and
\* no further input is taken
NoReturn == [kind |-> "no_return"]

\* the counter without its increment
NextCounterStuck(counter) == counter

\* self.booking_counter += 1
NextCounter(counter) == counter + 1

\* f"FL{self.booking_counter}"
BookingNumber(counter) == <<"F", "L">> \o IntToStr(counter)

\* booking_data (the booking_date, a wall-clock text, is left out)
BookingData(session, booking_number, seat_number) ==
  [booking_number |-> booking_number,
   passenger_name |-> session.passenger_name[1],
   passenger_age |-> session.passenger_age[1],
   source |-> session.source[1],
   destination |-> session.destination[1],
   airline |-> session.selected_flight[1].airline,
   departure_time |-> session.selected_flight[1].departure,
   duration |-> session.selected_flight[1].duration,
   price |-> session.selected_flight[1].price,
   seat_number |-> seat_number]

\* the record put at the head of the ledger
SaveBookingAtHead(ledger, booking_data) == <<booking_data>> \o ledger

\* self.bookings.append(booking_data)
SaveBooking(ledger, booking_data) == Append(ledger, booking_data)

\* complete_booking() on the session given.  Without a selected flight the
\* flight key raises after the counter was incremented, and the except
\* branch answers.  create_ticket_file only writes a file and reports in the
\* response text.  With every seat of the flight issued the seat draw does
\* not end: the counter is incremented, the passenger details are stored and
\* the call does not return.
complete_booking(session) ==
  IF session.selected_flight = None
  THEN /\ booking_counter' = NextCounter(booking_counter)
       /\ current_session' = reset_session
       /\ response' = [kind |-> "booking_error"]
       /\ UNCHANGED <<bookings, seat_assignments>>
  ELSE IF SeatsExhausted(seat_assignments, FlightKey(session))
  THEN /\ booking_counter' = NextCounter(booking_counter)
       /\ current_session' = session
       /\ response' = NoReturn
       /\ UNCHANGED <<bookings, seat_assignments>>
  ELSE /\ Len(bookings) < MaxBookings
       /\ booking_counter' = NextCounter(booking_counter)
       /\ \E seat \in generate_seat_number(seat_assignments, FlightKey(session)) :
            LET booking_data ==
                  BookingData(session, BookingNumber(booking_counter), seat)
            IN /\ seat_assignments' =
                    AppendSeat(seat_assignments, FlightKey(session), seat)
               /\ bookings' = SaveBooking(bookings, booking_data)
               /\ response' = [kind |-> "confirmed", booking |-> booking_data]
       /\ current_session' = reset_session

(***************************************************************************)
(* handle_booking_flow                                                     *)
(***************************************************************************)
\* the first city of the list whose lower-cased name occurs in the message
FirstCity(cities, message) ==
  IF \E i \in 1..Len(cities) : Contains(Lower(message), Lower(cities[i]))
  THEN Some(cities[CHOOSE i \in 1..Len(cities) :
                     /\ Contains(Lower(message), Lower(cities[i]))
                     /\ \A k \in 1..(i - 1) :
                          ~Contains(Lower(message), Lower(cities[k]))])
  ELSE None

\* the city matched in each message explored
FirstCityOf ==
  [message \in Normalized |-> FirstCity(get_available_cities, message)]

\* step get_source
GetSource(message) ==
  LET source_city == FirstCityOf[message]
  IN IF source_city # None
     THEN /\ current_session' =
               [current_session EXCEPT !.source = source_city,
                                       !.step = "get_destination"]
          /\ response' = [kind |-> "source_accepted", source |-> source_city[1]]
     ELSE /\ response' = [kind |-> "invalid_source"]
          /\ UNCHANGED current_session

\* step get_destination
GetDestination(message) ==
  LET destination_city == FirstCityOf[message]
      stored == [current_session EXCEPT !.destination = destination_city]
  IN IF destination_city = None
     THEN /\ response' = [kind |-> "invalid_destination"]
          /\ UNCHANGED current_session
     ELSE IF destination_city = current_session.source
     THEN /\ response' = [kind |-> "same_destination"]
          /\ UNCHANGED current_session
     ELSE IF /\ stored.source # None
             /\ HasRoute(stored.source[1], destination_city[1])
     THEN /\ current_session' = [stored EXCEPT !.step = "select_flight"]
          /\ response' =
               [kind |-> "route_accepted",
                options |->
                  [i \in 1..Len(flights_data[stored.source[1]][destination_city[1]])
                     |-> [option |-> i,
                          flight |-> flights_data[stored.source[1]][destination_city[1]][i]]]]
     ELSE \* the session is reset before the text is formatted from it
          /\ current_session' = reset_session
          /\ response' = [kind |-> "no_route",
                          source |-> Format(reset_session.source),
                          destination |-> destination_city[1]]

\* "1 <= choice <= len(flights)"
ValidChoice(choice, flights) == 1 <= choice /\ choice <= Len(flights)

\* the first offer whatever the choice
ChosenFlightFirst(flights, choice) == flights[1]

\* flights[choice - 1]
ChosenFlight(flights, choice) == flights[choice]

\* int(message.strip()) of each message explored
ChoiceOf == [message \in Normalized |-> ParseInt(Strip(message))]

\* step select_flight
SelectFlight(message) ==
  LET choice == ChoiceOf[message]
      flights ==
        flights_data[current_session.source[1]][current_session.destination[1]]
  IN IF choice = None
     THEN /\ response' = [kind |-> "invalid_number"]
          /\ UNCHANGED current_session
     ELSE IF ValidChoice(choice[1], flights)
     THEN /\ current_session' =
               [current_session EXCEPT
                  !.selected_flight = Some(ChosenFlight(flights, choice[1])),
                  !.step = "get_passenger_details"]
          /\ response' = [kind |-> "flight_selected",
                          flight |-> ChosenFlight(flights, choice[1])]
     ELSE /\ response' = [kind |-> "invalid_option", count |-> Len(flights)]
          /\ UNCHANGED current_session

\* the value of the last comma-separated part with the prefix (a later part
\* overwrites an earlier one), None without such a part
RECURSIVE PartValue(_, _)
PartValue(parts, prefix) ==
  IF parts = <<>> THEN None
  ELSE LET part == Strip(parts[Len(parts)])
       IN IF StartsWith(Lower(part), prefix)
          THEN Some(Strip(SubSeq(part, Len(prefix) + 1, Len(part))))
          ELSE PartValue(SubSeq(parts, 1, Len(parts) - 1), prefix)

\* the age test without its upper limit
ValidAgeNoLimit(age) == ~(age < 0)

\* "age < 0 or age > 120" is refused
ValidAge(age) == ~(age < 0 \/ age > 120)

\* name_part and age_part of each message explored
NamePartOf ==
  [message \in Normalized |-> PartValue(SplitOn(message, ","), NamePrefix)]

AgePartOf ==
  [message \in Normalized |-> PartValue(SplitOn(message, ","), AgePrefix)]

\* int(age_part) of each message explored with an age part
AgeOf ==
  [message \in Normalized |->
     IF AgePartOf[message] = None THEN None ELSE ParseInt(AgePartOf[message][1])]

\* step get_passenger_details
GetPassengerDetails(message) ==
  LET name_part == NamePartOf[message]
      age_part == AgePartOf[message]
      age == AgeOf[message]
  IN IF name_part \in {None, Some(<<>>)} \/ age_part \in {None, Some(<<>>)}
     THEN /\ response' = [kind |-> "invalid_details"]
          /\ UNCHANGED <<current_session, bookings, booking_counter,
                         seat_assignments>>
     ELSE IF age = None
     THEN /\ response' = [kind |-> "age_not_a_number"]
          /\ UNCHANGED <<current_session, bookings, booking_counter,
                         seat_assignments>>
     ELSE IF ~ValidAge(age[1])
     THEN /\ response' = [kind |-> "invalid_age"]
          /\ UNCHANGED <<current_session, bookings, booking_counter,
                         seat_assignments>>
     ELSE complete_booking(
            [current_session EXCEPT !.passenger_name = name_part,
                                    !.passenger_age = age])

\* handle_booking_flow(message)
handle_booking_flow(message) ==
  IF current_session.step = "get_source"
  THEN GetSource(message)
       /\ UNCHANGED <<bookings, booking_counter, seat_assignments>>
  ELSE IF current_session.step = "get_destination"
  THEN GetDestination(message)
       /\ UNCHANGED <<bookings, booking_counter, seat_assignments>>
  ELSE IF current_session.step = "select_flight"
  THEN SelectFlight(message)
       /\ UNCHANGED <<bookings, booking_counter, seat_assignments>>
  ELSE IF current_session.step = "get_passenger_details"
  THEN GetPassengerDetails(message)
  ELSE /\ response' = [kind |-> "not_understood"]
       /\ UNCHANGED <<current_session, bookings, booking_counter,
                      seat_assignments>>

(***************************************************************************)
(* process_message                                                         *)
(***************************************************************************)
\* the branch of the if/elif chain that answers the stripped, lower-cased
\* message
Branch(message) ==
  IF AnyWordIn(GreetingWords, message) THEN "greeting"
  ELSE IF AnyWordIn(CheckWords, message) THEN "check"
  ELSE IF AnyWordIn(BookWords, message) THEN "book"
  ELSE IF AnyWordIn(ReportWords, message) THEN "report"
  ELSE IF AnyWordIn(HelpWords, message) THEN "help"
  ELSE IF AnyWordIn(ResetWords, message) THEN "reset"
  ELSE "other"

\* Normalize and Branch, tabulated over the inputs explored
NormalizeOf == [raw \in AllInputs |-> Normalize(raw)]

BranchOf == [message \in Normalized |-> Branch(message)]

AnswerAndReset(answer) ==
  /\ response' = answer
  /\ current_session' = reset_session
  /\ UNCHANGED <<bookings, booking_counter, seat_assignments>>

\* the branches that only build an answer: availability check, report, help
AnswerOnly(answer) ==
  /\ response' = answer
  /\ UNCHANGED <<current_session, bookings, booking_counter, seat_assignments>>

\* process_message(raw)
process_message(raw) ==
  LET message == NormalizeOf[raw]
      branch == BranchOf[message]
  IN IF branch = "greeting"
     THEN /\ current_session' = reset_session
          /\ response' = [kind |-> "welcome", cities |-> get_available_cities]
          /\ UNCHANGED <<bookings, booking_counter, seat_assignments>>
     ELSE IF branch = "check"
     THEN AnswerOnly(CheckBranchOf[message])
     ELSE IF branch = "book" /\ current_session.step = "start"
     THEN /\ current_session' = [current_session EXCEPT !.step = "get_source"]
          /\ response' = [kind |-> "ask_source", cities |-> get_available_cities]
          /\ UNCHANGED <<bookings, booking_counter, seat_assignments>>
     ELSE IF branch = "book"
     THEN handle_booking_flow(message)
     ELSE IF branch = "report"
     THEN \* generate_summary_report only reads the ledger and writes a file
          AnswerOnly([kind |-> "report", total |-> Len(bookings)])
     ELSE IF branch = "help"
     THEN AnswerOnly([kind |-> "help"])
     ELSE IF branch = "reset"
     THEN /\ current_session' = reset_session
          /\ response' = [kind |-> "session_reset"]
          /\ UNCHANGED <<bookings, booking_counter, seat_assignments>>
     ELSE IF current_session.step # "start"
     THEN handle_booking_flow(message)
     ELSE /\ response' = [kind |-> "not_understood"]
          /\ UNCHANGED <<current_session, bookings, booking_counter,
                         seat_assignments>>

(***************************************************************************)
(* The assistant as a state machine: one input line per step.              *)
(***************************************************************************)
NoResponse == [kind |-> "none"]

\* no scripted conversation: no lines, none typed
NoScript == [lines |-> <<>>, typed |-> 0]

Init ==
  /\ current_session = EmptySession
  /\ bookings = <<>>
  /\ booking_counter = 1000
  /\ seat_assignments = <<>>
  /\ response = NoResponse
  /\ script = NoScript
  /\ call = None
  /\ data = None
  /\ data_file = None

\* chatbot_response(message): any of the inputs is typed, once the call
\* before it has returned
Send(raw) ==
  /\ response # NoReturn
  /\ process_message(raw)
  /\ UNCHANGED <<script, call, data, data_file>>

Next == \E raw \in Messages : Send(raw)

Spec == Init /\ [][Next]_vars

(***************************************************************************)
(* A fresh process that is given one scripted booking conversation.        *)
(***************************************************************************)
InitScript ==
  /\ current_session = EmptySession
  /\ bookings = <<>>
  /\ booking_counter = 1000
  /\ seat_assignments = <<>>
  /\ response = NoResponse
  /\ script \in {[lines |-> sc, typed |-> 0] : sc \in Scripts}
  /\ call = None
  /\ data = None
  /\ data_file = None

\* the next line of the script is typed
SendScripted ==
  /\ response # NoReturn
  /\ script.typed < Len(script.lines)
  /\ process_message(script.lines[script.typed + 1])
  /\ script' = [script EXCEPT !.typed = script.typed + 1]
  /\ UNCHANGED <<call, data, data_file>>

NextScript == SendScripted

SpecScript == InitScript /\ [][NextScript]_vars

(***************************************************************************)
(* A fresh process that is asked to book and is given a line for each of   *)
(* the two city questions.                                                 *)
(***************************************************************************)
InitCities ==
  /\ current_session = EmptySession
  /\ bookings = <<>>
  /\ booking_counter = 1000
  /\ seat_assignments = <<>>
  /\ response = NoResponse
  /\ script \in {[lines |-> sc, typed |-> 0] : sc \in CityScripts}
  /\ call = None
  /\ data = None
  /\ data_file = None

SpecCities == InitCities /\ [][NextScript]_vars

(***************************************************************************)
(* A process that has sold every seat of one flight: the state after one   *)
(* booking per seat code of the flight, in the order of the codes.         *)
(***************************************************************************)
\* the flights of the routes between the cities typed: route and offer
TypedFlights ==
  {<<r, k>> \in Routes \X (1..3) :
     /\ r[1] \in Messages /\ r[2] \in Messages
     /\ BranchOf[NormalizeOf[r[1]]] = "other"
     /\ BranchOf[NormalizeOf[r[2]]] = "other"
     /\ k <= Len(flights_data[r[1]][r[2]])}

\* the session complete_booking works on for the flight
BookedSession(f) ==
  [source |-> Some(f[1][1]), destination |-> Some(f[1][2]),
   selected_flight |-> Some(flights_data[f[1][1]][f[1][2]][f[2]]),
   passenger_name |-> Some(Lower(AnnLee)), passenger_age |-> Some(120),
   step |-> "get_passenger_details"]

\* the ledger after one booking per seat of the flight
FullLedger(f) ==
  [n \in 1..(SeatRows * Len(SeatLetters)) |->
     BookingData(BookedSession(f), BookingNumber(1000 + (n - 1)), SeatAt(n))]

InitFull ==
  \E f \in TypedFlights :
    /\ current_session = EmptySession
    /\ bookings = FullLedger(f)
    /\ booking_counter = 1000 + SeatRows * Len(SeatLetters)
    /\ seat_assignments =
         (FlightKey(BookedSession(f)) :>
            [n \in 1..(SeatRows * Len(SeatLetters)) |-> SeatAt(n)])
    /\ response = [kind |-> "confirmed",
                   booking |-> FullLedger(f)[SeatRows * Len(SeatLetters)]]
    /\ script = NoScript
    /\ call = None
    /\ data = None
    /\ data_file = None

SpecFull == InitFull /\ [][Next]_vars

(***************************************************************************)
(* Route lookup called directly with a pair of names.                      *)
(***************************************************************************)
\* the names given to check_flight_availability: the catalog keys, other
\* spellings of them and names the catalog does not have
LookupNames ==
  CityNames
  \cup {Lower(NewYork), Lower(Miami), Title(Lower(Seattle)), Atlantis,
        Lower(Atlantis), <<"N","e","w">>, <<"M","I","A","M","I">>}

\* check_flight_availability(source, destination) is called
Lookup(source, destination) ==
  /\ call' = Some([source |-> source, destination |-> destination])
  /\ response' = check_flight_availability(source, destination)
  /\ UNCHANGED <<current_session, bookings, booking_counter,
                 seat_assignments, script, data, data_file>>

NextLookup == \E source \in LookupNames, destination \in LookupNames :
                Lookup(source, destination)

SpecLookup == Init /\ [][NextLookup]_vars

(***************************************************************************)
(* The budget tracker (budget.py): BudgetManager over its JSON data file.  *)
(* Every method is a function of the data and the file content that gives  *)
(* the data and the file content after the call and the value returned.    *)
(***************************************************************************)
\* the data of a manager that found no readable file
DefaultData ==
  [monthly_salary |-> 0, budget_categories |-> <<>>, expenses |-> <<>>,
   savings_goal |-> 0]

\* the content of a file that is no JSON document
CorruptFile == [not_json |-> TRUE]

\* load_data(): the document of the file, the defaults when the file is
\* missing or cannot be decoded
load_data(file) ==
  IF file = None \/ file = Some(CorruptFile) THEN DefaultData ELSE file[1]

\* save_data(): the file holds the data
save_data(d) == Some(d)

\* a call that changed the data, saved it and returned
Saved(d, result) == [data |-> d, data_file |-> save_data(d), result |-> result]

\* a call that returned before it changed or saved anything
Refused(d, file, result) == [data |-> d, data_file |-> file, result |-> result]

\* "not category.strip()"
IsBlank(category) == Strip(category) = <<>>

\* set_monthly_salary(salary)
set_monthly_salary(d, file, salary) ==
  Saved([d EXCEPT !.monthly_salary = salary],
        [kind |-> "salary_set", amount |-> salary])

\* set_savings_goal(goal)
set_savings_goal(d, file, goal) ==
  Saved([d EXCEPT !.savings_goal = goal], [kind |-> "goal_set", amount |-> goal])

\* categories[category] = entry
SetCategory(categories, category, entry) ==
  [k \in (DOMAIN categories) \cup {category} |->
     IF k = category THEN entry ELSE categories[k]]

\* create_budget_category(category, amount, description)
create_budget_category(d, file, category, amount, description) ==
  IF IsBlank(category)
  THEN Refused(d, file, [kind |-> "category_error"])
  ELSE Saved([d EXCEPT !.budget_categories =
                SetCategory(@, category,
                            [budgeted_amount |-> amount,
                             description |-> description])],
             [kind |-> "category_set", category |-> category, amount |-> amount])

\* the text is one or two decimal digits, or (for the day) a space and a digit
\* 1..9, as the month and day directives of strptime read them
IsShortNumber(text, spaced) ==
  \/ Len(text) \in {1, 2} /\ \A i \in 1..Len(text) : IsDigit(text[i])
  \/ spaced /\ Len(text) = 2 /\ text[1] = " " /\ IsDigit(text[2]) /\ text[2] # "0"

IsLeapYear(year) == year % 4 = 0 /\ (year % 100 # 0 \/ year % 400 = 0)

DaysInMonth(year, month) ==
  IF month = 2 THEN (IF IsLeapYear(year) THEN 29 ELSE 28)
  ELSE IF month \in {4, 6, 9, 11} THEN 30 ELSE 31

\* datetime.datetime.strptime(text, "%Y-%m-%d") returns: four digits of a
\* year from 1, a month 1..12 and a day of that month, joined by "-"
StrptimeAccepts(text) ==
  LET parts == SplitOn(text, "-")
  IN /\ Len(parts) = 3
     /\ Len(parts[1]) = 4 /\ \A i \in 1..4 : IsDigit(parts[1][i])
     /\ DigitsValue(parts[1]) >= 1
     /\ IsShortNumber(parts[2], FALSE)
     /\ DigitsValue(parts[2]) \in 1..12
     /\ IsShortNumber(parts[3], TRUE)
     /\ DigitsValue(Strip(parts[3])) \in
          1..DaysInMonth(DigitsValue(parts[1]), DigitsValue(parts[2]))

\* the dates typed into the expense form: the empty text, dates and texts
\* that are no date
DateTexts ==
  {<<>>, <<"2","0","2","6","-","1","0","-","0","5">>,
   <<"2","0","2","7","-","0","1","-","1","5">>,
   <<"2","0","2","6","-","2","-","9">>,
   <<"2","0","2","6","-","0","2","-","3","0">>,
   <<"0","5","/","1","0","/","2","0","2","6">>,
   <<"s","o","o","n">>}

\* the date argument of add_expense: None or a text
DateInputs == {None} \cup {Some(text) : text \in DateTexts}

\* datetime.datetime.now().strftime("%Y-%m-%d") at the time of the call
Todays == {<<"2","0","2","6","-","1","1","-","0","1">>}

\* strptime over the date texts explored
StrptimeAcceptsOf == [text \in DateTexts |-> StrptimeAccepts(text)]

\* the date an expense is stored with
StoredDate(date, today) ==
  IF date = None \/ date = Some(<<>>) THEN today
  ELSE IF StrptimeAcceptsOf[date[1]] THEN date[1]
  ELSE today

\* add_expense(category, amount, description, date)
add_expense(d, file, category, amount, description, date, today) ==
  IF IsBlank(category)
  THEN Refused(d, file, [kind |-> "category_error"])
  ELSE LET expense == [date |-> StoredDate(date, today), category |-> category,
                       amount |-> amount, description |-> description]
       IN Saved([d EXCEPT !.expenses = Append(@, expense)],
                [kind |-> "expense_added", amount |-> amount,
                 category |-> category, date |-> expense.date])

delete_last_expense_by_date(d, file) ==
  IF d.expenses = <<>>
  THEN Refused(d, file, [kind |-> "no_expenses"])
  ELSE LET n == Len(d.expenses)
           newest == CHOOSE i \in 1..n :
                       /\ \A j \in 1..n :
                            ~StrLess(d.expenses[i].date, d.expenses[j].date)
                       /\ \A j \in (i + 1)..n :
                            d.expenses[j].date # d.expenses[i].date
           removed == d.expenses[newest]
       IN Saved([d EXCEPT !.expenses =
                   SubSeq(@, 1, newest - 1) \o SubSeq(@, newest + 1, n)],
                [kind |-> "expense_deleted", amount |-> removed.amount,
                 category |-> removed.category, date |-> removed.date])

\* delete_last_expense(): list.pop() removes the last element of the list
delete_last_expense(d, file) ==
  IF d.expenses = <<>>
  THEN Refused(d, file, [kind |-> "no_expenses"])
  ELSE LET removed == d.expenses[Len(d.expenses)]
       IN Saved([d EXCEPT !.expenses = SubSeq(@, 1, Len(@) - 1)],
                [kind |-> "expense_deleted", amount |-> removed.amount,
                 category |-> removed.category, date |-> removed.date])

\* the category names typed: two names, and the empty and the blank text
Food == <<"F","o","o","d">>

Rent == <<"R","e","n","t">>

BlankText == <<" "," ">>

CategoryTexts == {Food, Rent, <<>>, BlankText}

Lunch == <<"l","u","n","c","h">>

\* the arguments of add_expense explored
ExpenseInputs ==
  {[category |-> c, amount |-> a, description |-> Lunch, date |-> dt] :
     c \in CategoryTexts, a \in {12}, dt \in DateInputs}
  \cup {[category |-> Food, amount |-> 40, description |-> <<>>, date |-> None]}

\* the arguments of create_budget_category explored
CategoryInputs ==
  {[category |-> c, amount |-> a, description |-> <<>>] :
     c \in CategoryTexts, a \in {200, 300}}

\* the amounts given as salary and as savings goal
Salaries == {0, 3000}

Goals == {0, 500}

\* the data a file of an earlier run holds
SavedData ==
  {[monthly_salary |-> 3000,
    budget_categories |-> (Food :> [budgeted_amount |-> 200, description |-> <<>>]),
    expenses |-> <<[date |-> <<"2","0","2","6","-","1","0","-","0","5">>, category |-> Food,
                    amount |-> 12, description |-> Lunch]>>,
    savings_goal |-> 500]}

\* the data file the manager is constructed over: missing, unreadable, or
\* written by an earlier run
DataFiles == {None, Some(CorruptFile)} \cup {Some(d) : d \in SavedData}

\* the airline assistant is no part of the budget tracker's process
NoAirline ==
  /\ current_session = EmptySession
  /\ bookings = <<>>
  /\ booking_counter = 1000
  /\ seat_assignments = <<>>
  /\ script = NoScript
  /\ call = None

\* budget_manager = BudgetManager()
InitBudget ==
  /\ data_file \in DataFiles
  /\ data = load_data(data_file)
  /\ response = NoResponse
  /\ NoAirline

\* the data, the file and the returned value after a call
Returns(outcome) ==
  /\ data' = outcome.data
  /\ data_file' = outcome.data_file
  /\ response' = outcome.result
  /\ UNCHANGED <<current_session, bookings, booking_counter, seat_assignments,
                 script, call>>

SetMonthlySalary == \E salary \in Salaries :
  Returns(set_monthly_salary(data, data_file, salary))

SetSavingsGoal == \E goal \in Goals :
  Returns(set_savings_goal(data, data_file, goal))

CreateBudgetCategory == \E c \in CategoryInputs :
  Returns(create_budget_category(data, data_file, c.category, c.amount,
                                 c.description))

AddExpense == \E e \in ExpenseInputs, today \in Todays :
  /\ IsBlank(e.category) \/ Len(data.expenses) < MaxExpenses
  /\ Returns(add_expense(data, data_file, e.category, e.amount, e.description,
                         e.date, today))

DeleteLastExpense == Returns(delete_last_expense(data, data_file))

NextBudget ==
  \/ SetMonthlySalary
  \/ SetSavingsGoal
  \/ CreateBudgetCategory
  \/ AddExpense
  \/ DeleteLastExpense

SpecBudget == InitBudget /\ [][NextBudget]_vars

(***************************************************************************)
(* Properties.                                                             *)
(***************************************************************************)
\* the scripted conversation has been typed to its end
ScriptDone == script.lines # <<>> /\ script.typed = Len(script.lines)

\* C1: a fresh process given "book", O, D, k, "Name: <name>, Age: <age>" for
\* a route (O, D) of the catalog and its k-th offer ends with a confirmation:
\* exactly one ledger record, numbered FL1000, with O, D, the carrier,
\* departure, duration and price of the k-th offer and a seat of rows 1-30
\* and letters A-F.
C1_ScriptedBookingConfirmed ==
  ScriptDone =>
    LET origin == script.lines[2]
        destination == script.lines[3]
        offer == flights_data[origin][destination][ParseInt(script.lines[4])[1]]
    IN /\ response.kind = "confirmed"
       /\ Len(bookings) = 1
       /\ bookings[1].booking_number = <<"F","L","1","0","0","0">>
       /\ bookings[1].source = origin
       /\ bookings[1].destination = destination
       /\ bookings[1].airline = offer.airline
       /\ bookings[1].departure_time = offer.departure
       /\ bookings[1].duration = offer.duration
       /\ bookings[1].price = offer.price
       /\ bookings[1].seat_number \in AllSeats

\* the availability-check inputs that name a route of the catalog
RouteCheckInputs ==
  {r \in Routes : CheckMessage(r[1], r[2]) \in Messages}

\* C2: in every session step "check flights from O to D", for a route (O, D)
\* of the catalog, returns all the offers of the route in catalog order and
\* leaves the session unchanged.
C2_CheckListsRouteOffers ==
  [][\A r \in RouteCheckInputs :
       Send(CheckMessage(r[1], r[2])) =>
         /\ response'.kind = "availability"
         /\ Len(response'.options) = Len(flights_data[r[1]][r[2]])
         /\ \A i \in 1..Len(response'.options) :
              response'.options[i].flight = flights_data[r[1]][r[2]][i]
         /\ current_session' = current_session]_vars

\* the entries of a list are pairwise distinct
NoDuplicates(list) ==
  \A i, j \in 1..Len(list) : i # j => list[i] # list[j]

\* two ledger records of the same flight: origin, destination and carrier
SameFlight(a, b) ==
  a.source = b.source /\ a.destination = b.destination /\ a.airline = b.airline

\* C3: the seat codes issued under one flight key are pairwise distinct, in
\* the seat table and among the ledger records of one origin, destination and
\* carrier, and every issued code is a row 1..30 with a letter A..F.
C3_SeatsDistinctPerFlight ==
  /\ \A key \in DOMAIN seat_assignments :
       /\ NoDuplicates(seat_assignments[key])
       /\ Range(seat_assignments[key]) \subseteq AllSeats
  /\ \A i, j \in 1..Len(bookings) :
       (i # j /\ SameFlight(bookings[i], bookings[j]))
         => bookings[i].seat_number # bookings[j].seat_number
  /\ \A i \in 1..Len(bookings) : bookings[i].seat_number \in AllSeats

\* two seats were issued for one flight
C3_TwoSeatsOnOneFlight ==
  /\ \E key \in DOMAIN seat_assignments : Len(seat_assignments[key]) >= 2
  /\ \E i, j \in 1..Len(bookings) :
       i # j /\ SameFlight(bookings[i], bookings[j])

\* the number written after the prefix FL, None when the text is no such
\* booking number
NumberOf(booking_number) ==
  IF StartsWith(booking_number, <<"F", "L">>)
  THEN ParseInt(SubSeq(booking_number, 3, Len(booking_number)))
  ELSE None

\* C4: the i-th completed booking, counted from 0, has the number
\* FL(1000+i), whatever inputs occur between the bookings: numbers increase
\* strictly in ledger order and no two records share one.
C4_BookingNumbersSequential ==
  /\ \A i \in 1..Len(bookings) :
       NumberOf(bookings[i].booking_number) = Some(1000 + (i - 1))
  /\ \A i, j \in 1..Len(bookings) :
       i # j => bookings[i].booking_number # bookings[j].booking_number

\* two bookings were completed, numbered FL1000 and FL1001
C4_TwoBookings ==
  /\ Len(bookings) >= 2
  /\ bookings[1].booking_number = <<"F","L","1","0","0","0">>
  /\ bookings[2].booking_number = <<"F","L","1","0","0","1">>

\* the inputs process_message hands to handle_booking_flow when a booking is
\* in progress: those of the branch "book" and of the final else
HandlerInputs ==
  {raw \in Messages : BranchOf[NormalizeOf[raw]] \in {"book", "other"}}

\* the integer an input line is, None for a line that is no integer
IntegerOf == [raw \in Messages |-> ParseInt(raw)]

\* the session is as before but for the selected offer and the step
OnlySelectionChanged ==
  /\ current_session'.source = current_session.source
  /\ current_session'.destination = current_session.destination
  /\ current_session'.passenger_name = current_session.passenger_name
  /\ current_session'.passenger_age = current_session.passenger_age

\* C5: at step select_flight with the stored route (O, D) of N offers, the
\* step handler given k with 1 <= k <= N stores the k-th offer of
\* catalog[O][D] and advances to get_passenger_details; given an integer
\* outside 1..N or a line that is no integer it stores no offer and leaves
\* the step at select_flight.
C5_SelectStoresKthOffer ==
  [][\A raw \in HandlerInputs :
       (current_session.step = "select_flight" /\ Send(raw)) =>
         LET offers == flights_data[current_session.source[1]]
                                   [current_session.destination[1]]
             k == IntegerOf[raw]
         IN IF k # None /\ k[1] >= 1 /\ k[1] <= Len(offers)
            THEN /\ current_session'.selected_flight = Some(offers[k[1]])
                 /\ current_session'.step = "get_passenger_details"
                 /\ OnlySelectionChanged
            ELSE /\ current_session'.selected_flight = None
                 /\ current_session'.step = "select_flight"
                 /\ current_session' = current_session]_vars

\* the second offer of the stored route was selected
C5_SecondOfferSelected ==
  /\ current_session.step = "get_passenger_details"
  /\ response.kind = "flight_selected"
  /\ current_session.source = Some(NewYork)
  /\ current_session.destination = Some(Miami)
  /\ current_session.selected_flight = Some(flights_data[NewYork][Miami][2])

\* C6: route lookup answers the same-city error when origin and destination
\* are the same city compared case-insensitively, whatever the catalog holds;
\* otherwise, for exact catalog keys of an existing route, every offer of
\* catalog[origin][destination] numbered 1..N in catalog order; otherwise
\* not-found.  The lookup changes no state.
C6_LookupMatchesReference ==
  call # None =>
    LET source == call[1].source
        destination == call[1].destination
    IN /\ IF Lower(source) = Lower(destination)
          THEN response.kind = "same_city_error"
          ELSE IF <<source, destination>> \in Routes
          THEN /\ response.kind = "availability"
               /\ Len(response.options) = Len(flights_data[source][destination])
               /\ \A i \in 1..Len(response.options) :
                    /\ response.options[i].option = i
                    /\ response.options[i].flight =
                         flights_data[source][destination][i]
          ELSE response.kind = "not_found"
       /\ current_session = EmptySession
       /\ bookings = <<>>
       /\ booking_counter = 1000
       /\ seat_assignments = <<>>

\* the lookup listed the two offers from New York to Miami
C6_RouteListed ==
  /\ call = Some([source |-> NewYork, destination |-> Miami])
  /\ response.kind = "availability"
  /\ Len(response.options) = 2
  /\ response.options[1].flight.price = 189
  /\ response.options[2].flight.price = 209

\* the input lines that contain no known city
NoCityInputs ==
  {raw \in Messages :
     \A city \in CityNames : ~Contains(Lower(raw), Lower(city))}

\* the known city an input line names when it names exactly one
OnlyCityOf ==
  [raw \in Messages |->
     IF Cardinality({c \in CityNames : Contains(Lower(raw), Lower(c))}) = 1
     THEN Some(CHOOSE c \in CityNames : Contains(Lower(raw), Lower(c)))
     ELSE None]

\* the passenger details an input line gives: the texts after "name:" and
\* after "age:" in its comma-separated parts, None for a part not given
DetailsOf ==
  [raw \in Messages |->
     LET parts == SplitOn(Lower(Strip(raw)), ",")
         named == {i \in 1..Len(parts) : StartsWith(Strip(parts[i]), NamePrefix)}
         aged == {i \in 1..Len(parts) : StartsWith(Strip(parts[i]), AgePrefix)}
     IN [name |-> IF named = {} THEN None
                  ELSE Some(Strip(SubSeq(Strip(parts[CHOOSE i \in named : TRUE]),
                                         6, Len(Strip(parts[CHOOSE i \in named : TRUE]))))),
         age |-> IF aged = {} THEN None
                 ELSE Some(Strip(SubSeq(Strip(parts[CHOOSE i \in aged : TRUE]),
                                        5, Len(Strip(parts[CHOOSE i \in aged : TRUE])))))]]

\* the passenger details of the line are refused: the name or the age is
\* missing or empty, or the age is not an integer in 0..120
RefusedDetails(raw) ==
  \/ DetailsOf[raw].name \in {None, Some(<<>>)}
  \/ DetailsOf[raw].age \in {None, Some(<<>>)}
  \/ ParseInt(DetailsOf[raw].age[1]) = None
  \/ ParseInt(DetailsOf[raw].age[1])[1] < 0
  \/ ParseInt(DetailsOf[raw].age[1])[1] > 120

RefusedDetailsInputs == {raw \in Messages : RefusedDetails(raw)}

\* the answers that ask for the same input again
RepromptKinds ==
  {"invalid_source", "invalid_destination", "same_destination",
   "invalid_number", "invalid_option", "invalid_details",
   "age_not_a_number", "invalid_age"}

\* the step handler is given a line that is an error at the current step
RepromptCase(raw) ==
  \/ /\ current_session.step \in {"get_source", "get_destination"}
     /\ raw \in NoCityInputs
  \/ /\ current_session.step = "get_destination"
     /\ OnlyCityOf[raw] # None
     /\ OnlyCityOf[raw] = current_session.source
  \/ /\ current_session.step = "select_flight"
     /\ \/ IntegerOf[raw] = None
        \/ IntegerOf[raw][1] < 1
        \/ IntegerOf[raw][1] >
             Len(flights_data[current_session.source[1]]
                             [current_session.destination[1]])
  \/ /\ current_session.step = "get_passenger_details"
     /\ raw \in RefusedDetailsInputs

\* C7: every reprompting error leaves the step and every session field, the
\* ledger, the counter and the seat table unchanged: no known city at
\* get_source or get_destination, the destination equal to the origin, a
\* non-numeric or out-of-range choice at select_flight, and a missing name or
\* age or an age that is no integer in 0..120 at get_passenger_details.
\* "book" followed by "Atlantis" leaves the step at get_source.
C7_RepromptChangesNothing ==
  [][\* a step that is no reprompt, or that changes the session, the ledger,
     \* the counter or the seat table, is not the answer to an erroneous line
     /\ (/\ current_session.step # "start"
         /\ \/ response'.kind \notin RepromptKinds
            \/ ~UNCHANGED <<current_session, bookings, booking_counter,
                            seat_assignments>>) =>
          \A raw \in HandlerInputs : ~(RepromptCase(raw) /\ Send(raw))
     /\ response'.kind \in RepromptKinds =>
          UNCHANGED <<current_session, bookings, booking_counter,
                      seat_assignments>>
     /\ (current_session.step = "get_source" /\ Send(Atlantis)) =>
          /\ current_session'.step = "get_source"
          /\ response'.kind = "invalid_source"]_vars

\* an age over 120 was refused at get_passenger_details
C7_AgeRefused ==
  /\ response.kind = "invalid_age"
  /\ current_session.step = "get_passenger_details"
  /\ current_session.passenger_name = None
  /\ current_session.passenger_age = None

\* C8: at get_destination, a matched destination that differs from the stored
\* origin and has no route from it resets the session entirely and leaves the
\* ledger, the counter and the seat table unchanged; so the step is
\* select_flight or get_passenger_details only while the stored origin and
\* destination are a route of the catalog.
C8_NoRouteResetsSession ==
  /\ [][\A raw \in HandlerInputs :
          ( /\ current_session.step = "get_destination"
            /\ Send(raw)
            /\ OnlyCityOf[raw] # None
            /\ OnlyCityOf[raw] # current_session.source
            /\ <<current_session.source[1], OnlyCityOf[raw][1]>> \notin Routes )
          => /\ current_session' = EmptySession
             /\ UNCHANGED <<bookings, booking_counter, seat_assignments>>]_vars
  /\ [](current_session.step \in {"select_flight", "get_passenger_details"}
          => /\ current_session.source # None
             /\ current_session.destination # None
             /\ <<current_session.source[1], current_session.destination[1]>>
                  \in Routes)

\* a destination without a route from the origin was answered
C8_NoRouteAnswered ==
  /\ response.kind = "no_route"
  /\ response.destination = Seattle
  /\ current_session = EmptySession

\* the input lines that contain "reset", "cancel" or "start over"
ResetInputs ==
  {raw \in Messages : AnyWordIn(ResetWords, Lower(raw))}

\* C9: in every session step an input that contains "reset", "cancel" or
\* "start over" resets the session: the step is start and origin,
\* destination, selected offer, passenger name and age are unset.
C9_ResetWordsResetSession ==
  [][\A raw \in ResetInputs : Send(raw) => current_session' = EmptySession]_vars

\* C10: whenever booking finalization has returned, with a confirmation or
\* with an error message, the session is empty, and the next "book" starts a
\* new conversation at get_source.
C10_SessionEmptyAfterFinalization ==
  /\ [](response.kind \in {"confirmed", "booking_error"}
          => current_session = EmptySession)
  /\ [][(response.kind \in {"confirmed", "booking_error"} /\ Send(Book))
          => current_session' = [EmptySession EXCEPT !.step = "get_source"]]_vars

\* a booking was confirmed and the session is empty
C10_ConfirmedAndEmpty ==
  /\ response.kind = "confirmed"
  /\ Len(bookings) >= 1
  /\ response.booking = bookings[Len(bookings)]
  /\ current_session = EmptySession

\* C11: booking finalization terminates for a flight whose 180 seats are all
\* issued, and every call of process_message returns a response: no call is
\* left running in the seat draw.
C11_EveryCallReturns == response # NoReturn

\* the ledger before the step is a prefix of the ledger after it
LedgerExtended ==
  /\ Len(bookings') >= Len(bookings)
  /\ SubSeq(bookings', 1, Len(bookings)) = bookings

\* C12: the ledger is append-only: every ledger state is a prefix of the next
\* one, no record is changed or removed, and the ledger grows by exactly one
\* record on a confirmed booking and by none on any other input.
C12_LedgerAppendOnly ==
  [][/\ LedgerExtended
     /\ IF response'.kind = "confirmed"
        THEN /\ Len(bookings') = Len(bookings) + 1
             /\ bookings'[Len(bookings')] = response'.booking
        ELSE bookings' = bookings]_vars

\* two bookings are in the ledger and a later reset has left them there
C12_LedgerKeptAfterReset ==
  /\ Len(bookings) = 2
  /\ response.kind = "session_reset"
  /\ bookings[1].booking_number # bookings[2].booking_number

\* the values of the step
Steps ==
  {"start", "get_source", "get_destination", "select_flight",
   "get_passenger_details"}

\* the edges of the conversation, from a step to the step after it
StepEdges ==
  {<<"start", "get_source">>, <<"get_source", "get_destination">>,
   <<"get_destination", "select_flight">>,
   <<"select_flight", "get_passenger_details">>,
   <<"get_passenger_details", "start">>}

\* C13: every input leaves the step unchanged, moves it along one edge of
\* start -> get_source -> get_destination -> select_flight ->
\* get_passenger_details -> start, or moves it back to start; the step is
\* always one of the five values.
C13_StepFollowsEdges ==
  /\ [](current_session.step \in Steps)
  /\ [][\/ current_session'.step = current_session.step
        \/ current_session'.step = "start"
        \/ <<current_session.step, current_session'.step>> \in StepEdges]_vars

\* a conversation went through every step and ended in a confirmation
C13_WholeConversation ==
  /\ response.kind = "confirmed"
  /\ current_session.step = "start"
  /\ Len(bookings) >= 1

\* the input lines with a name: part of non-empty value and an age: part whose
\* value is an integer in 0..120
AcceptableDetailsInputs == Messages \ RefusedDetailsInputs

\* C14: at get_passenger_details every input with a non-empty name: part and
\* an age: part that is an integer in 0..120 is accepted: finalization runs
\* and the ledger grows by exactly one record, which carries that age; every
\* ledger record has a non-empty passenger name and an integer age in 0..120.
C14_ValidDetailsAccepted ==
  [][\A raw \in AcceptableDetailsInputs :
       (current_session.step = "get_passenger_details" /\ Send(raw)) =>
         /\ response'.kind = "confirmed"
         /\ Len(bookings') = Len(bookings) + 1
         /\ bookings'[Len(bookings')].passenger_age =
              ParseInt(DetailsOf[raw].age[1])[1]
         /\ \A i \in 1..Len(bookings') :
              /\ bookings'[i].passenger_name # <<>>
              /\ bookings'[i].passenger_age \in 0..120]_vars

\* the text after the name: prefix of an input line as the user typed it: the
\* prefix is matched without regard to case, the value is trimmed and its
\* letters are kept
TypedNameOf ==
  [raw \in Messages |->
     LET parts == SplitOn(Strip(raw), ",")
         named == {i \in 1..Len(parts) :
                     StartsWith(Lower(Strip(parts[i])), NamePrefix)}
     IN IF named = {} THEN None
        ELSE LET part == Strip(parts[CHOOSE i \in named : \A j \in named : i >= j])
             IN Some(Strip(SubSeq(part, Len(NamePrefix) + 1, Len(part))))]

\* C16: the passenger name of a booking record is the text after the name:
\* prefix of the input line, trimmed and otherwise as typed, letter case
\* included: "Name: Ann Lee, Age: 120" records the name "Ann Lee".
C16_NameStoredAsTyped ==
  [][\A raw \in Messages :
       (Send(raw) /\ Len(bookings') = Len(bookings) + 1) =>
         /\ TypedNameOf[raw] # None
         /\ bookings'[Len(bookings')].passenger_name = TypedNameOf[raw][1]]_vars

\* the cities in alphabetical order and in the order the catalog declares
\* its origins
AlphabeticalOrder == <<Chicago, LosAngeles, Miami, NewYork, Seattle>>

DeclaredOrder == <<NewYork, LosAngeles, Miami, Chicago, Seattle>>

\* the known cities named in a line
CitiesIn(raw) == {c \in CityNames : Contains(Lower(raw), Lower(c))}

\* the line typed by the step taken
TypedLine == script.lines[script.typed + 1]

\* the step taken chose a city at get_source or at get_destination, from a
\* line that names more than one known city, and it is the first city of the
\* order that the line names
ChoosesFirstOf(order) ==
  (/\ script.typed < Len(script.lines)
   /\ script'.typed = script.typed + 1
   /\ Cardinality(CitiesIn(TypedLine)) > 1) =>
    /\ response'.kind = "source_accepted" =>
         current_session'.source = FirstCity(order, TypedLine)
    /\ response'.kind = "same_destination" =>
         current_session.source = FirstCity(order, TypedLine)
    /\ response'.kind = "route_accepted" =>
         current_session'.destination = FirstCity(order, TypedLine)
    /\ response'.kind = "no_route" =>
         Some(response'.destination) = FirstCity(order, TypedLine)

\* C15 as stated: at get_source and at get_destination, when the line names
\* more than one known city, the city chosen is the first in the declared
\* order New York, Los Angeles, Miami, Chicago, Seattle.
C15_FirstDeclaredCityChosen == [][ChoosesFirstOf(DeclaredOrder)]_vars

\* C15 amended: at get_source and at get_destination, when the line names
\* more than one known city, the city chosen is the first in alphabetical
\* order Chicago, Los Angeles, Miami, New York, Seattle.
C15_FirstAlphabeticalCityChosen == [][ChoosesFirstOf(AlphabeticalOrder)]_vars

\* "New York or Miami" was typed at get_source and Miami is the origin
C15_MiamiBeforeNewYork ==
  /\ script.typed = 2
  /\ script.lines[2] = TwoCities
  /\ response.kind = "source_accepted"
  /\ current_session.source = Some(Miami)
  /\ current_session.step = "get_destination"

\* the offers of the route of the session
SessionOffers == flights_data[current_session.source[1]][current_session.destination[1]]

\* C17: between two inputs the session is well-formed for its step: at start
\* and at get_source every field is unset; at get_destination exactly the
\* origin is set and it is a known city; at select_flight origin and
\* destination are set, differ and form a route of the catalog, and no offer
\* is selected; at get_passenger_details the selected offer is an offer of
\* that route; passenger name and passenger age are unset in every step.
C17_SessionWellFormed ==
  /\ current_session.passenger_name = None
  /\ current_session.passenger_age = None
  /\ current_session.step \in {"start", "get_source"} =>
       current_session = [EmptySession EXCEPT !.step = current_session.step]
  /\ current_session.step = "get_destination" =>
       /\ current_session.source # None
       /\ current_session.source[1] \in CityNames
       /\ current_session.destination = None
       /\ current_session.selected_flight = None
  /\ current_session.step \in {"select_flight", "get_passenger_details"} =>
       /\ current_session.source # None
       /\ current_session.destination # None
       /\ current_session.source # current_session.destination
       /\ HasRoute(current_session.source[1], current_session.destination[1])
  /\ current_session.step = "select_flight" =>
       current_session.selected_flight = None
  /\ current_session.step = "get_passenger_details" =>
       /\ current_session.selected_flight # None
       /\ current_session.selected_flight[1] \in Range(SessionOffers)

\* the second offer of a route with several offers is selected and the
\* passenger details are awaited
C17_OfferSelected ==
  /\ current_session.step = "get_passenger_details"
  /\ Len(SessionOffers) >= 2
  /\ current_session.selected_flight = Some(SessionOffers[2])

\* the flight key of a ledger record
RecordKey(booking) ==
  booking.source \o <<"-">> \o booking.destination \o <<"-">> \o booking.airline

\* the positions of the ledger records of a flight key
RecordsOf(key) == {i \in 1..Len(bookings) : RecordKey(bookings[i]) = key}

\* C18: the counter, the seat table and the ledger agree: the counter is 1000
\* plus the number of ledger records, and for every flight key the seats in
\* the seat table are exactly the seats of the ledger records of that origin,
\* destination and carrier.
C18_CounterSeatsLedgerAgree ==
  /\ booking_counter = 1000 + Len(bookings)
  /\ \A i \in 1..Len(bookings) : RecordKey(bookings[i]) \in DOMAIN seat_assignments
  /\ \A key \in DOMAIN seat_assignments :
       /\ Range(seat_assignments[key]) =
            {bookings[i].seat_number : i \in RecordsOf(key)}
       /\ Len(seat_assignments[key]) = Cardinality(RecordsOf(key))

\* two bookings of one flight and the counter at 1002
C18_TwoRecordsOneKey ==
  /\ booking_counter = 1002
  /\ \E key \in DOMAIN seat_assignments : Cardinality(RecordsOf(key)) = 2

\* the input lines answered by the availability check, the report or the help
\* branch
AnswerOnlyInputs ==
  {raw \in Messages : BranchOf[NormalizeOf[raw]] \in {"check", "report", "help"}}

\* C19: an input answered by the help, the report or the availability-check
\* branch, in any step, leaves the session, the ledger, the booking counter
\* and the seat table unchanged.
C19_AnswerOnlyChangesNothing ==
  [][\A raw \in AnswerOnlyInputs :
       Send(raw) =>
         /\ UNCHANGED <<current_session, bookings, booking_counter, seat_assignments>>
         /\ response'.kind \in {"help", "report", "availability", "not_found",
                                "same_city_error", "check_usage"}]_vars

\* help was answered while an offer was awaited, after a booking
C19_HelpDuringBooking ==
  /\ response.kind = "help"
  /\ current_session.step = "select_flight"
  /\ Len(bookings) >= 1

\* C20: when get_destination finds no route, the answer names both cities of
\* the rejected pair: the origin chosen at get_source and the matched
\* destination.
C20_NoRouteNamesBothCities ==
  [][(current_session.step = "get_destination" /\ response'.kind = "no_route") =>
       /\ response'.source = current_session.source[1]
       /\ response'.destination \in CityNames \ {current_session.source[1]}]_vars

\* the arguments of add_expense with a category that is not blank
NamedExpenseInputs == {e \in ExpenseInputs : ~IsBlank(e.category)}

\* add_expense with the arguments, then delete_last_expense, from the data and
\* the file of the state
AddedThenDeleted(e, today) ==
  LET added == add_expense(data, data_file, e.category, e.amount,
                           e.description, e.date, today)
  IN [added |-> added,
      deleted |-> delete_last_expense(added.data, added.data_file)]

\* the call returned an error and changed neither the data nor the file
RefusedWith(outcome, kind) ==
  /\ outcome.result.kind = kind
  /\ outcome.data = data
  /\ outcome.data_file = data_file

\* C21: delete_last_expense removes exactly the expense added by the most
\* recent add_expense still present, in insertion order whatever the dates:
\* add_expense with a non-blank category followed by delete_last_expense
\* restores the expense list and leaves salary, savings goal and budget
\* categories unchanged; delete_last_expense on an empty list, and add_expense
\* or create_budget_category with a blank category, return an error and
\* change nothing.
C21_DeleteUndoesLastAdd ==
  /\ [](/\ \A e \in NamedExpenseInputs, today \in Todays :
             LET r == AddedThenDeleted(e, today)
             IN /\ r.added.result.kind = "expense_added"
                /\ Len(r.added.data.expenses) = Len(data.expenses) + 1
                /\ r.deleted.result =
                     [r.added.result EXCEPT !.kind = "expense_deleted"]
                /\ r.deleted.data = data
        /\ \A e \in ExpenseInputs \ NamedExpenseInputs, today \in Todays :
             RefusedWith(add_expense(data, data_file, e.category, e.amount,
                                     e.description, e.date, today),
                         "category_error")
        /\ \A c \in CategoryInputs :
             IsBlank(c.category) =>
               RefusedWith(create_budget_category(data, data_file, c.category,
                                                  c.amount, c.description),
                           "category_error")
        /\ data.expenses = <<>> =>
             RefusedWith(delete_last_expense(data, data_file), "no_expenses"))
  /\ [][/\ response'.kind = "expense_deleted" =>
             /\ data.expenses # <<>>
             /\ data' = [data EXCEPT !.expenses = SubSeq(@, 1, Len(@) - 1)]
             /\ response'.category = data.expenses[Len(data.expenses)].category
             /\ response'.amount = data.expenses[Len(data.expenses)].amount
             /\ response'.date = data.expenses[Len(data.expenses)].date
        /\ response'.kind = "expense_added" =>
             /\ SubSeq(data'.expenses, 1, Len(data.expenses)) = data.expenses
             /\ Len(data'.expenses) = Len(data.expenses) + 1
             /\ data' = [data EXCEPT !.expenses = data'.expenses]
        /\ response'.kind \in {"category_error", "no_expenses"} =>
             UNCHANGED <<data, data_file>>]_vars

\* the expense added last was deleted although the expense before it has a
\* later date
C21_LastAddedDeletedNotLatest ==
  /\ response.kind = "expense_deleted"
  /\ response.date = <<"2","0","2","6","-","1","0","-","0","5">>
  /\ data.expenses # <<>>
  /\ data.expenses[Len(data.expenses)].date = <<"2","0","2","7","-","0","1","-","1","5">>
  /\ data.monthly_salary = 3000
  /\ data_file = Some(data)

====
